---- MODULE Spec2Model ----
(***************************************************************************)
(* Model of xraw_parser_writer.py: XRawVolumeWriter (the encoder) and      *)
(* XRawVolumeParser (the decoder) of the XRAW voxel-volume file format.    *)
(*                                                                         *)
(* Bytes are integers 0..255, byte strings are sequences of them.  A numpy *)
(* array is a record [kind, dtype, shape, vals]: shape is the tuple of its *)
(* extents, vals maps each index tuple (0-based, as in the source) to the  *)
(* element.  A Python exception is the name of its class; "" is "none      *)
(* raised".  struct's native formats "b", "i", "I" are taken on a          *)
(* little-endian build (the only one the file format is written for).      *)
(***************************************************************************)
EXTENDS Integers, Sequences, FiniteSets, TLC

(***************************************************************************)
(* Bounds of the model.                                                    *)
(***************************************************************************)
MaxW == 2
MaxH == 2
MaxD == 2
MaxColors == 2
MaxParses == 2

(***************************************************************************)
(* Python / numpy primitives the source relies on.                         *)
(***************************************************************************)
Min(a, b) == IF a < b THEN a ELSE b

\* len(a.shape)
NDim(a) == Len(a.shape)

RECURSIVE Prod(_)
Prod(s) == IF s = <<>> THEN 1 ELSE Head(s) * Prod(Tail(s))

\* a.size
Size(a) == Prod(a.shape)

\* XRawVolumeParser.color_channel_data_types (0-based list)
color_channel_data_types == <<"I", "i", "f">>

\* list.index(x)
ListIndex(l, x) == (CHOOSE k \in 1..Len(l) : l[k] = x) - 1

\* the class hierarchy of the exceptions met: issubclass(e, "ValueError")
IsValueError(e) == e \in {"ValueError", "UnicodeDecodeError"}

\* "XRAW".encode("utf-8")
format_string == <<88, 82, 65, 87>>

\* int.to_bytes(4, 'little', signed=False), for 0 <= n < 2^32
ToBytes4(n) == << n % 256, (n \div 256) % 256, (n \div 65536) % 256,
                  (n \div 16777216) % 256 >>

\* int.from_bytes(bs, byteorder='little'); 0 for the empty byte string
RECURSIVE FromBytesLittle(_)
FromBytesLittle(bs) ==
    IF bs = <<>> THEN 0 ELSE Head(bs) + 256 * FromBytesLittle(Tail(bs))

\* b"\x00" * n (the empty byte string when n <= 0)
Zeros(n) == [k \in 1..n |-> 0]

\* LoopZYX with the loops nested the other way round (x outermost), as a
\* writer that walked the array in storage order would
LoopXYZ(w, h, d) ==
    [k \in 1..(w * h * d) |->
        << (k - 1) \div (h * d), ((k - 1) \div d) % h, (k - 1) % d >>]

(***************************************************************************)
(* The nested loops "for z: for y: for x:" of write_voxels and             *)
(* read_voxel_buffer: the k-th body execution (k from 1) is at <<x,y,z>>.  *)
(***************************************************************************)
LoopZYX(w, h, d) ==
    [k \in 1..(w * h * d) |->
        << (k - 1) % w, ((k - 1) \div w) % h, (k - 1) \div (w * h) >>]

\* "for i: for c:" of write_palette and read_palette_buffer
LoopIC(n, nc) ==
    [k \in 1..(IF n > 0 /\ nc > 0 THEN n * nc ELSE 0) |->
        << (k - 1) \div nc, (k - 1) % nc >>]

\* the body execution of each loop that is at a given index tuple
StepZYX(w, h, d, c) == 1 + c[1] + w * (c[2] + h * c[3])
StepIC(n, nc, c) == 1 + c[1] * nc + c[2]

(***************************************************************************)
(* XRawVolumeWriter                                                        *)
(***************************************************************************)
\* the default_voxels property: np.zeros((1,1,1)), a float64 array
default_voxels ==
    [dtype |-> "float", shape |-> <<1, 1, 1>>, vals |-> (<<0, 0, 0>> :> 0)]

\* the default_palette property: np.full((256, 4), 255), an integer array
default_palette ==
    [dtype |-> "int", shape |-> <<256, 4>>,
     vals |-> [c \in (0..255) \X (0..3) |-> 255]]

\* A constructor argument: None, a nested list, or a numpy array.
NoneArg == [kind |-> "None", dtype |-> "int", shape |-> <<>>, vals |-> <<>>]

\* bool(arg != None), lines 103-104.  A list compares unequal to None.  A
\* numpy array compares elementwise, and the truth value of the resulting
\* array is its element's when it has one, an error (ValueError) when it has
\* several, and for none either False or an error, depending on the numpy
\* release.
TruthOfNotNone(arg) ==
    CASE arg.kind = "None" -> {"False"}
      [] arg.kind = "list" -> {"True"}
      [] OTHER -> IF Size(arg) = 1 THEN {"True"}
                  ELSE IF Size(arg) = 0 THEN {"False", "raise"}
                  ELSE {"raise"}

\* np.array(arg): a nested list of ints gives an integer array, a nested
\* list without elements a float64 one; an array keeps its dtype.
NpArray(arg) ==
    [dtype |-> IF arg.kind = "list" /\ Size(arg) = 0 THEN "float" ELSE arg.dtype,
     shape |-> arg.shape, vals |-> arg.vals]

\* the instance when __init__ raised e: no attribute is usable
NoWriter(e) ==
    [err |-> e,
     voxels |-> [dtype |-> "int", shape |-> <<0, 0, 0>>, vals |-> <<>>],
     palette |-> [dtype |-> "int", shape |-> <<0, 0>>, vals |-> <<>>],
     width |-> 0, height |-> 0, depth |-> 0,
     num_of_pallette_colors |-> 0, num_of_color_channels |-> 0,
     color_channel_data_type |-> "I", bytes_per_channel |-> 0,
     bytes_per_index |-> 0]

\* __init__(voxels, palette); tv, tp are the truth values of the two
\* "!= None" tests
WriterInit(voxels, palette, tv, tp) ==
    IF tv = "raise" \/ tp = "raise" THEN NoWriter("ValueError")
    ELSE LET v == IF tv = "True" THEN NpArray(voxels) ELSE default_voxels
             p == IF tp = "True" THEN NpArray(palette) ELSE default_palette
         IN  IF NDim(v) # 3 THEN NoWriter("ValueError")
             ELSE IF NDim(p) < 2 THEN NoWriter("IndexError")
             ELSE [err |-> "", voxels |-> v, palette |-> p,
                   width |-> v.shape[1], height |-> v.shape[2],
                   depth |-> v.shape[3],
                   num_of_pallette_colors |-> p.shape[1],
                   num_of_color_channels |-> p.shape[2],
                   color_channel_data_type |-> color_channel_data_types[1],
                   bytes_per_channel |-> 1, bytes_per_index |-> 1]

\* The file object of the writer: self.file is None, an open file or a
\* closed one; data is what has been written to it; err the exception that
\* is propagating, if any.
NoFile == [file |-> "None", data |-> <<>>, err |-> ""]

\* BytesErr without the range check, as a byte write that narrows silently
BytesErrNoRange(vals, dtype) ==
    IF vals = <<>> THEN ""
    ELSE IF dtype = "float" THEN "TypeError"
    ELSE ""

\* bytes(iterable): the exception it raises, "" when it raises none
BytesErr(vals, dtype) ==
    IF vals = <<>> THEN ""
    ELSE IF dtype = "float" THEN "TypeError"
    ELSE IF \E k \in 1..Len(vals) : vals[k] \notin 0..255 THEN "ValueError"
    ELSE ""

\* write_bytes(bytes_iterable)
write_bytes(f, vals, dtype) ==
    IF f.err # "" \/ f.file = "None" THEN f
    ELSE IF BytesErr(vals, dtype) # "" THEN [f EXCEPT !.err = BytesErr(vals, dtype)]
    ELSE [f EXCEPT !.data = f.data \o vals]

\* write_unsigned_int(int_number): to_bytes raises OverflowError from 2^32 on
write_unsigned_int(f, n) ==
    IF f.err # "" \/ f.file = "None" THEN f
    ELSE IF n \div 65536 >= 65536 THEN [f EXCEPT !.err = "OverflowError"]
    ELSE write_bytes(f, ToBytes4(n), "int")

\* get_color_channel_data_type_index()
get_color_channel_data_type_index(w) ==
    ListIndex(color_channel_data_types, w.color_channel_data_type)

\* write_header()
write_header(w, f) ==
    IF f.err # "" \/ f.file = "None" THEN f
    ELSE LET f1 == write_bytes(f, format_string, "int")
             f2 == write_bytes(f1, <<get_color_channel_data_type_index(w)>>, "int")
             f3 == write_bytes(f2, <<w.num_of_color_channels>>, "int")
             f4 == write_bytes(f3, <<w.bytes_per_channel * 8>>, "int")
             f5 == write_bytes(f4, <<w.bytes_per_index * 8>>, "int")
             f6 == write_unsigned_int(f5, w.width)
             f7 == write_unsigned_int(f6, w.height)
             f8 == write_unsigned_int(f7, w.depth)
         IN  write_unsigned_int(f8, w.num_of_pallette_colors)

\* A loop "for k: self.write_bytes([a[order[k]]])": the elements are written
\* one byte each in loop order up to the first one bytes() rejects, whose
\* exception ends the loop.
WriteLoop(f, a, order) ==
    IF f.err # "" THEN f
    ELSE LET bad == {k \in 1..Len(order) :
                        BytesErr(<<a.vals[order[k]]>>, a.dtype) # ""}
             n == IF bad = {} THEN Len(order)
                  ELSE (CHOOSE k \in bad : \A j \in bad : k <= j) - 1
             g == [f EXCEPT !.data = f.data \o [k \in 1..n |-> a.vals[order[k]]]]
         IN  IF bad = {} THEN g
             ELSE [g EXCEPT !.err = BytesErr(<<a.vals[order[n + 1]]>>, a.dtype)]

\* write_voxels()
write_voxels(w, f) ==
    WriteLoop(f, w.voxels, LoopZYX(w.width, w.height, w.depth))

\* write_palette()
write_palette(w, f) ==
    WriteLoop(f, w.palette,
              LoopIC(w.num_of_pallette_colors, w.num_of_color_channels))

\* write_file(filepath): open, the three passes, close.  An exception of a
\* pass leaves the method before self.file.close().
write_file(w) ==
    LET f0 == [file |-> "open", data |-> <<>>, err |-> ""]
        f3 == write_palette(w, write_voxels(w, write_header(w, f0)))
    IN  IF f3.err # "" THEN f3 ELSE [f3 EXCEPT !.file = "closed"]

\* __del__(): if self.file: self.file.close()
writer_del(f) ==
    IF f.file = "None" THEN f ELSE [f EXCEPT !.file = "closed"]

(***************************************************************************)
(* XRawVolumeParser                                                        *)
(***************************************************************************)
\* self.file.read(n) at position pos of the byte string src: at most n
\* bytes, fewer at the end of the file; read(-1) reads to the end and any
\* other negative size is a ValueError.
FileRead(src, pos, n) ==
    IF n < -1 THEN [err |-> "ValueError", bytes |-> <<>>, pos |-> pos]
    ELSE LET to == IF n = -1 THEN Len(src) ELSE Min(pos + n, Len(src))
         IN  [err |-> "", bytes |-> SubSeq(src, pos + 1, to), pos |-> to]

\* bytes.decode('utf-8') succeeds: bs is well-formed UTF-8
RECURSIVE Utf8Valid(_)
Utf8Valid(bs) ==
    IF bs = <<>> THEN TRUE
    ELSE LET b == bs[1]
             Cont(k, lo, hi) == Len(bs) >= k /\ bs[k] \in lo..hi
             From(k) == Utf8Valid(SubSeq(bs, k, Len(bs)))
         IN  CASE b < 128 -> From(2)
               [] b \in 194..223 -> Cont(2, 128, 191) /\ From(3)
               [] b = 224 -> Cont(2, 160, 191) /\ Cont(3, 128, 191) /\ From(4)
               [] b \in (225..236) \cup (238..239) ->
                      Cont(2, 128, 191) /\ Cont(3, 128, 191) /\ From(4)
               [] b = 237 -> Cont(2, 128, 159) /\ Cont(3, 128, 191) /\ From(4)
               [] b = 240 -> Cont(2, 144, 191) /\ Cont(3, 128, 191)
                             /\ Cont(4, 128, 191) /\ From(5)
               [] b \in 241..243 -> Cont(2, 128, 191) /\ Cont(3, 128, 191)
                                    /\ Cont(4, 128, 191) /\ From(5)
               [] b = 244 -> Cont(2, 128, 143) /\ Cont(3, 128, 191)
                             /\ Cont(4, 128, 191) /\ From(5)
               [] OTHER -> FALSE

\* raise_error_if_file_not_valid comparing "XRA" only
raise_error_if_prefix_not_valid(src, pos) ==
    LET r == FileRead(src, pos, 4)
    IN  [pos |-> r.pos,
         err |-> IF ~Utf8Valid(r.bytes) THEN "UnicodeDecodeError"
                 ELSE IF Len(r.bytes) < 3
                         \/ \E k \in 1..3 : r.bytes[k] # format_string[k]
                 THEN "ValueError"
                 ELSE ""]

\* raise_error_if_file_not_valid(): read 4 bytes, decode, compare
raise_error_if_file_not_valid(src, pos) ==
    LET r == FileRead(src, pos, 4)
    IN  [pos |-> r.pos,
         err |-> IF ~Utf8Valid(r.bytes) THEN "UnicodeDecodeError"
                 ELSE IF r.bytes # format_string THEN "ValueError"
                 ELSE ""]

\* read_byte_to_int(): struct.unpack("b", read(1)), a signed byte
read_byte_to_int(src, pos) ==
    LET r == FileRead(src, pos, 1)
    IN  IF Len(r.bytes) # 1 THEN [err |-> "struct.error", pos |-> r.pos, val |-> 0]
        ELSE [err |-> "", pos |-> r.pos,
              val |-> IF r.bytes[1] >= 128 THEN r.bytes[1] - 256 ELSE r.bytes[1]]

\* read_unsigned_int(): struct.unpack("I", read(4))
read_unsigned_int(src, pos) ==
    LET r == FileRead(src, pos, 4)
    IN  IF Len(r.bytes) # 4 THEN [err |-> "struct.error", pos |-> r.pos, val |-> 0]
        ELSE [err |-> "", pos |-> r.pos, val |-> FromBytesLittle(r.bytes)]

\* the attributes read_header sets, when it raised e at position pos
NoHeader(e, pos) ==
    [err |-> e, pos |-> pos, color_channel_data_type |-> "I",
     num_of_color_channels |-> 0, bytes_per_channel |-> 0,
     bytes_per_index |-> 0, width |-> 0, height |-> 0, depth |-> 0,
     num_of_pallette_colors |-> 0]

\* Python's floor division by 8
FloorDiv8(v) == v \div 8

\* read_header().  A negative list index counts from the end of the list;
\* one outside -3..2 is an IndexError.
read_header(src, pos) ==
    LET m  == raise_error_if_file_not_valid(src, pos)
        b1 == read_byte_to_int(src, m.pos)
        b2 == read_byte_to_int(src, b1.pos)
        b3 == read_byte_to_int(src, b2.pos)
        b4 == read_byte_to_int(src, b3.pos)
        u1 == read_unsigned_int(src, b4.pos)
        u2 == read_unsigned_int(src, u1.pos)
        u3 == read_unsigned_int(src, u2.pos)
        u4 == read_unsigned_int(src, u3.pos)
    IN  IF m.err # "" THEN NoHeader(m.err, m.pos)
        ELSE IF b1.err # "" THEN NoHeader(b1.err, b1.pos)
        ELSE IF b1.val \notin -3..2 THEN NoHeader("IndexError", b1.pos)
        ELSE IF b2.err # "" THEN NoHeader(b2.err, b2.pos)
        ELSE IF b3.err # "" THEN NoHeader(b3.err, b3.pos)
        ELSE IF b4.err # "" THEN NoHeader(b4.err, b4.pos)
        ELSE IF u1.err # "" THEN NoHeader(u1.err, u1.pos)
        ELSE IF u2.err # "" THEN NoHeader(u2.err, u2.pos)
        ELSE IF u3.err # "" THEN NoHeader(u3.err, u3.pos)
        ELSE IF u4.err # "" THEN NoHeader(u4.err, u4.pos)
        ELSE [err |-> "", pos |-> u4.pos,
              color_channel_data_type |->
                  color_channel_data_types[((b1.val + 3) % 3) + 1],
              num_of_color_channels |-> b2.val,
              bytes_per_channel |-> FloorDiv8(b3.val),
              bytes_per_index |-> FloorDiv8(b4.val),
              width |-> u1.val, height |-> u2.val, depth |-> u3.val,
              num_of_pallette_colors |-> u4.val]

\* The position before the k-th of a run of read(n) calls that starts at pos
\* (k from 1; n >= -1).
ReadStart(src, pos, n, k) ==
    IF k = 1 THEN pos
    ELSE IF n = -1 THEN Len(src)
    ELSE Min(pos + (k - 1) * n, Len(src))

\* np.zeros(shape): the index tuples of an array of that shape
Indices3(w, h, d) == (0..(w - 1)) \X (0..(h - 1)) \X (0..(d - 1))
Indices2(n, nc) == (0..(n - 1)) \X (0..(nc - 1))

\* read_voxel_buffer(): every element is int.from_bytes of whatever read()
\* returned, a short or empty byte string included.
read_voxel_buffer(src, pos, hd) ==
    LET order == LoopZYX(hd.width, hd.height, hd.depth)
        n     == Len(order)
        bpi   == hd.bytes_per_index
        shape == <<hd.width, hd.height, hd.depth>>
        val(k) == FromBytesLittle(
                      FileRead(src, ReadStart(src, pos, bpi, k), bpi).bytes)
    IN  IF n > 0 /\ bpi < -1
        THEN [err |-> "ValueError", pos |-> pos,
              voxels |-> [kind |-> "ndarray", dtype |-> "float",
                          shape |-> shape, vals |-> <<>>]]
        ELSE [err |-> "", pos |-> ReadStart(src, pos, bpi, n + 1),
              voxels |-> [kind |-> "ndarray", dtype |-> "float", shape |-> shape,
                          vals |-> [c \in Indices3(hd.width, hd.height, hd.depth) |->
                                      val(StepZYX(hd.width, hd.height, hd.depth, c))]]]

\* struct.unpack(type, four bytes)[0]: "I" unsigned, "i" two's complement,
\* "f" the IEEE single with that bit pattern (kept as the pattern)
Unpack4(type, bs) ==
    CASE type = "I" -> FromBytesLittle(bs)
      [] type = "i" -> FromBytesLittle(SubSeq(bs, 1, 3))
                       + 16777216 * (IF bs[4] >= 128 THEN bs[4] - 256 ELSE bs[4])
      [] OTHER -> IF bs = Zeros(4) THEN 0 ELSE <<"float32", bs>>

\* read_palette_buffer(): np.zeros refuses a negative extent; each channel
\* is read(bytes_per_channel) padded by 4 - bytes_per_channel zero bytes, and
\* struct.unpack raises struct.error unless that makes exactly 4 bytes.
read_palette_buffer(src, pos, hd) ==
    LET ncol  == hd.num_of_pallette_colors
        nch   == hd.num_of_color_channels
        bpc   == hd.bytes_per_channel
        order == LoopIC(ncol, nch)
        n     == Len(order)
        shape == <<ncol, nch>>
        none  == [kind |-> "ndarray", dtype |-> "float", shape |-> shape,
                  vals |-> <<>>]
        data(k) == FileRead(src, ReadStart(src, pos, bpc, k), bpc).bytes
                       \o Zeros(4 - bpc)
        bad   == {k \in 1..n : Len(data(k)) # 4}
        first == CHOOSE k \in bad : \A j \in bad : k <= j
    IN  IF nch < 0 THEN [err |-> "ValueError", pos |-> pos, palette |-> none]
        ELSE IF n > 0 /\ bpc < -1
        THEN [err |-> "ValueError", pos |-> pos, palette |-> none]
        ELSE IF bad # {}
        THEN [err |-> "struct.error",
              pos |-> ReadStart(src, pos, bpc, first + 1), palette |-> none]
        ELSE [err |-> "", pos |-> ReadStart(src, pos, bpc, n + 1),
              palette |-> [kind |-> "ndarray", dtype |-> "float", shape |-> shape,
                           vals |-> [c \in Indices2(ncol, nch) |->
                                       Unpack4(hd.color_channel_data_type,
                                               data(StepIC(ncol, nch, c)))]]]

\* read_remaining_bytes()
read_remaining_bytes(src, pos) ==
    [pos |-> Len(src), remaining_bytes |-> SubSeq(src, pos + 1, Len(src))]

\* ndarray.tolist()
ToList(a) == [a EXCEPT !.kind = "list"]

\* self.data: None, or the dict parse builds (keys is its key set)
NoArray == [kind |-> "None", dtype |-> "float", shape |-> <<>>, vals |-> <<>>]
None ==
    [none |-> TRUE, keys |-> {}, width |-> 0, height |-> 0, depth |-> 0,
     num_of_pallette_colors |-> 0, voxels |-> NoArray, palette |-> NoArray]

\* Truthy judging the cache by its content: an all-empty volume counts as
\* "not parsed yet"
TruthyByContent(d) == ~d.none /\ (Size(d.voxels) > 0 \/ Size(d.palette) > 0)

\* bool(self.data): None is false, a dict is true unless it has no key
Truthy(d) == ~d.none /\ d.keys # {}

\* parse raised e with the file at position pos: self.data is as it was
ParseRaise(p, e, pos) ==
    [inst |-> [p EXCEPT !.pos = pos], err |-> e, ret |-> None]

\* lines 77-90 of parse: build self.data and return it
ParseAssemble(p, use_lists, hd, vx, pl, rm) ==
    LET data == [none |-> FALSE,
                 keys |-> {"width", "height", "depth", "num_of_pallette_colors",
                           "voxels", "palette"},
                 width |-> hd.width, height |-> hd.height, depth |-> hd.depth,
                 num_of_pallette_colors |-> hd.num_of_pallette_colors,
                 voxels |-> IF use_lists THEN ToList(vx.voxels) ELSE vx.voxels,
                 palette |-> IF use_lists THEN ToList(pl.palette) ELSE pl.palette]
    IN  [inst |-> [pos |-> rm.pos, data |-> data,
                   remaining_bytes |-> rm.remaining_bytes],
         err |-> "", ret |-> data]

\* lines 74-90 of parse, with the header hd and the voxel pass vx done
ParseFromPalette(p, src, use_lists, hd, vx, pl) ==
    IF pl.err # "" THEN ParseRaise(p, pl.err, pl.pos)
    ELSE ParseAssemble(p, use_lists, hd, vx, pl, read_remaining_bytes(src, pl.pos))

\* lines 73-90 of parse, with the header hd read
ParseFromVoxels(p, src, use_lists, hd, vx) ==
    IF vx.err # "" THEN ParseRaise(p, vx.err, vx.pos)
    ELSE ParseFromPalette(p, src, use_lists, hd, vx,
                          read_palette_buffer(src, vx.pos, hd))

ParseFromHeader(p, src, use_lists, hd) ==
    IF hd.err # "" THEN ParseRaise(p, hd.err, hd.pos)
    ELSE ParseFromVoxels(p, src, use_lists, hd,
                         read_voxel_buffer(src, hd.pos, hd))

\* parse(use_lists) on the instance p = [pos, data, remaining_bytes] over
\* the file src: the instance afterwards, the exception raised, the value
\* returned.
parse(p, src, use_lists) ==
    IF Truthy(p.data) THEN [inst |-> p, err |-> "", ret |-> p.data]
    ELSE ParseFromHeader(p, src, use_lists, read_header(src, p.pos))

(***************************************************************************)
(* The inputs: constructor arguments of the writer, files for the parser.  *)
(***************************************************************************)
\* element values that tell the index tuples apart, all within 0..255
Coded3(c) == 1 + c[1] + 10 * c[2] + 100 * c[3]
Coded2(c) == (50 * c[1] + c[2] + 10) % 256

\* the first value one byte cannot hold
TooBig == 256

\* channels per colour tried: none, RGBA and the like, and both sides of the
\* signed-byte and the byte limit of the header field
ChannelCounts == {0, 1, 4, 127, 128, 255, 256}

Shapes3 == {<<w, h, d>> : w \in 1..MaxW, h \in 1..MaxH, d \in 0..MaxD}
Shapes2 == {<<n, nc>> : n \in 1..MaxColors, nc \in ChannelCounts}

Arg(kind, shape, vals) ==
    [kind |-> kind, dtype |-> "int", shape |-> shape, vals |-> vals]

VoxelArgs ==
    {NoneArg}
    \cup {Arg("list", s, [c \in Indices3(s[1], s[2], s[3]) |-> Coded3(c)]) :
             s \in Shapes3}
    \cup {Arg("ndarray", s, [c \in Indices3(s[1], s[2], s[3]) |-> Coded3(c)]) :
             s \in {t \in Shapes3 : t[3] > 0}}
    \cup {Arg("list", s, [c \in Indices3(s[1], s[2], s[3]) |-> 255 - Coded3(c)]) :
             s \in {<<MaxW, MaxH, MaxD>>}}
    \cup UNION {{Arg("list", s, [c \in Indices3(s[1], s[2], s[3]) |->
                                    IF c = hot THEN TooBig ELSE 0]) :
                    hot \in Indices3(s[1], s[2], s[3])} : s \in Shapes3}
    \cup {Arg("list", <<MaxW, MaxH>>,
              [c \in (0..(MaxW - 1)) \X (0..(MaxH - 1)) |-> 0])}

PaletteArgs ==
    {NoneArg}
    \cup {Arg("list", s, [c \in Indices2(s[1], s[2]) |-> Coded2(c)]) : s \in Shapes2}
    \cup {Arg("ndarray", s, [c \in Indices2(s[1], s[2]) |-> Coded2(c)]) :
             s \in {t \in Shapes2 : t[2] \in {1, 4}}}
    \cup UNION {{Arg("list", s, [c \in Indices2(s[1], s[2]) |->
                                    IF c = hot THEN TooBig ELSE 255]) :
                    hot \in Indices2(s[1], s[2])} :
                s \in {t \in Shapes2 : t[2] \in {1, 4}}}
    \cup {Arg("list", <<0>>, <<>>)}

SimpleVoxels ==
    {Arg("list", s, [c \in Indices3(s[1], s[2], s[3]) |-> Coded3(c)]) :
        s \in {<<MaxW, MaxH, MaxD>>}}

SimplePalettes ==
    {Arg("list", <<MaxColors, 4>>, [c \in Indices2(MaxColors, 4) |-> Coded2(c)])}

\* the (voxels, palette) pairs a writer is constructed from
InputPairs ==
    (VoxelArgs \X SimplePalettes) \cup (SimpleVoxels \X PaletteArgs)
    \cup {<<NoneArg, NoneArg>>}

\* Files a parser is opened on, made from a file f the writer wrote for nvox
\* voxels: f itself, f with trailing bytes, f cut short, f with a wrong
\* magic tag, a rejected tag followed by f, f without a palette (whole and
\* cut short), and f declaring 16-bit indices.
Cut(f, k) == SubSeq(f, 1, Min(k, Len(f)))
NoPalette(f, nvox) == SubSeq(f, 1, 20) \o <<0, 0, 0, 0>> \o SubSeq(f, 25, 24 + nvox)
Sources(f, nvox) ==
    {f, f \o <<7, 9>>,
     Cut(f, 2), Cut(f, 24), Cut(f, 24 + nvox - 1), Cut(f, Len(f) - 1),
     [f EXCEPT ![4] = 48], [f EXCEPT ![1] = 255],
     <<88, 82, 65, 48>> \o f,
     NoPalette(f, nvox), Cut(NoPalette(f, nvox), 24),
     Cut(NoPalette(f, nvox), 24 + nvox - 1),
     [f EXCEPT ![8] = 16]}

(***************************************************************************)
(* The state machine.                                                      *)
(***************************************************************************)
VARIABLES
    voxelsArg,   \* the voxels argument of XRawVolumeWriter(...)
    paletteArg,  \* its palette argument
    writer,      \* the XRawVolumeWriter instance (err: what __init__ raised)
    wfile,       \* its self.file, with the outcome of the last write_file
    wcalled,     \* write_file has been called
    wdeleted,    \* the writer has been destroyed
    pstate,      \* the parser: "none", "open", "closed"
    psrc,        \* the content of the file the parser has open
    pinst,       \* the parser's file position, self.data, remaining_bytes
    plog         \* the parse calls so far: mode, exception, value, positions

vars == <<voxelsArg, paletteArg, writer, wfile, wcalled, wdeleted,
          pstate, psrc, pinst, plog>>

wvars == <<voxelsArg, paletteArg, writer, wfile, wcalled, wdeleted>>
pvars == <<pstate, psrc, pinst, plog>>

\* XRawVolumeWriter(voxels, palette) has run; there is no parser yet
Init ==
    /\ \E in \in InputPairs :
         /\ voxelsArg = in[1]
         /\ paletteArg = in[2]
         /\ \E tv \in TruthOfNotNone(in[1]), tp \in TruthOfNotNone(in[2]) :
              writer = WriterInit(in[1], in[2], tv, tp)
    /\ wfile = NoFile
    /\ wcalled = FALSE
    /\ wdeleted = FALSE
    /\ pstate = "none"
    /\ psrc = <<>>
    /\ pinst = [pos |-> 0, data |-> None, remaining_bytes |-> <<>>]
    /\ plog = <<>>

\* writer.write_file(path)
WriteFile ==
    /\ writer.err = ""
    /\ ~wdeleted
    /\ wfile' = write_file(writer)
    /\ wcalled' = TRUE
    /\ UNCHANGED <<voxelsArg, paletteArg, writer, wdeleted>>
    /\ UNCHANGED pvars

\* del writer
WriterDel ==
    /\ writer.err = ""
    /\ ~wdeleted
    /\ wfile' = writer_del(wfile)
    /\ wdeleted' = TRUE
    /\ UNCHANGED <<voxelsArg, paletteArg, writer, wcalled>>
    /\ UNCHANGED pvars

\* XRawVolumeParser(path) on a file made from one write_file completed
ParserInit ==
    /\ pstate = "none"
    /\ wfile.file = "closed"
    /\ wfile.err = ""
    /\ \E src \in Sources(wfile.data, writer.width * writer.height * writer.depth) :
         psrc' = src
    /\ pstate' = "open"
    /\ pinst' = [pos |-> 0, data |-> None, remaining_bytes |-> <<>>]
    /\ plog' = <<>>
    /\ UNCHANGED wvars

\* parser.parse(use_lists)
Parse ==
    /\ pstate = "open"
    /\ Len(plog) < MaxParses
    /\ \E use_lists \in BOOLEAN :
         LET r == parse(pinst, psrc, use_lists)
         IN  /\ pinst' = r.inst
             /\ plog' = Append(plog, [use_lists |-> use_lists, err |-> r.err,
                                      ret |-> r.ret, pos0 |-> pinst.pos,
                                      pos1 |-> r.inst.pos])
    /\ UNCHANGED <<pstate, psrc>>
    /\ UNCHANGED wvars

\* del parser: self.file.close()
ParserDel ==
    /\ pstate = "open"
    /\ pstate' = "closed"
    /\ UNCHANGED <<psrc, pinst, plog>>
    /\ UNCHANGED wvars

Next == WriteFile \/ WriterDel \/ ParserInit \/ Parse \/ ParserDel

Spec == Init /\ [][Next]_vars

(***************************************************************************)
(* What the claims speak of.                                               *)
(***************************************************************************)
\* every element of the array a is an integer in 0..255
InRangeInts(a) ==
    Size(a) = 0 \/ (a.dtype = "int" /\ \A c \in DOMAIN a.vals : a.vals[c] \in 0..255)

\* the array a holds an integer above 255
HasTooBig(a) == a.dtype = "int" /\ \E c \in DOMAIN a.vals : a.vals[c] > 255

\* The documented file layout of the volume the writer w holds, every
\* element taken modulo 256: byte number o (from 0) of the file.
LayoutByte(w, o) ==
    LET nvox == w.width * w.height * w.depth
        nc   == w.num_of_color_channels
        q    == o - 24
        r    == o - 24 - nvox
    IN  CASE o < 4 -> format_string[o + 1]
          [] o = 4 -> 0
          [] o = 5 -> nc % 256
          [] o \in {6, 7} -> 8
          [] o \in 8..11 -> ToBytes4(w.width)[o - 7]
          [] o \in 12..15 -> ToBytes4(w.height)[o - 11]
          [] o \in 16..19 -> ToBytes4(w.depth)[o - 15]
          [] o \in 20..23 -> ToBytes4(w.num_of_pallette_colors)[o - 19]
          [] o >= 24 /\ q < nvox ->
                 w.voxels.vals[<< q % w.width, (q \div w.width) % w.height,
                                  q \div (w.width * w.height) >>] % 256
          [] OTHER -> w.palette.vals[<< r \div nc, r % nc >>] % 256

EncodedLayout(w) ==
    [k \in 1..(24 + w.width * w.height * w.depth
                  + w.num_of_pallette_colors * w.num_of_color_channels) |->
        LayoutByte(w, k - 1)]

\* the offset in that layout of the first element above 255, in write order
FirstTooBig(w) ==
    LET L == 24 + w.width * w.height * w.depth
                + w.num_of_pallette_colors * w.num_of_color_channels
        nvox == w.width * w.height * w.depth
        nc == w.num_of_color_channels
        big == {o \in 24..(L - 1) :
                  IF o - 24 < nvox
                  THEN w.voxels.vals[<< (o - 24) % w.width,
                                        ((o - 24) \div w.width) % w.height,
                                        (o - 24) \div (w.width * w.height) >>] > 255
                  ELSE w.palette.vals[<< (o - 24 - nvox) \div nc,
                                         (o - 24 - nvox) % nc >>] > 255}
    IN  CHOOSE o \in big : \A j \in big : o <= j

\* the parser was opened on the very file the writer wrote
ParsesWrittenFile == pstate # "none" /\ psrc = wfile.data

\* the header fields of the parser's file, read from its start
SrcHeader == read_header(psrc, 0)

\* a parse result r gives back the arrays the writer was built from
SameVolume(r) ==
    /\ <<r.width, r.height, r.depth>> = voxelsArg.shape
    /\ r.num_of_pallette_colors = paletteArg.shape[1]
    /\ DOMAIN r.voxels.vals = DOMAIN voxelsArg.vals
    /\ \A c \in DOMAIN voxelsArg.vals : r.voxels.vals[c] = voxelsArg.vals[c]
    /\ DOMAIN r.palette.vals = DOMAIN paletteArg.vals
    /\ \A c \in DOMAIN paletteArg.vals : r.palette.vals[c] = paletteArg.vals[c]

(***************************************************************************)
(* The claims.                                                             *)
(***************************************************************************)

\* C1 (as stated): for every 3-dimensional voxel array and 2-dimensional
\* palette array of integers in 0..255, the encoder can be constructed,
\* write_file succeeds, and parse of the written file succeeds and returns
\* the same extents, colour count, voxel values and palette values.
C1_RoundTrip ==
    ( /\ voxelsArg.kind # "None" /\ NDim(voxelsArg) = 3
      /\ paletteArg.kind # "None" /\ NDim(paletteArg) = 2
      /\ InRangeInts(voxelsArg) /\ InRangeInts(paletteArg) )
    => /\ writer.err = ""
       /\ wcalled => (wfile.err = "" /\ wfile.file = "closed")
       /\ (ParsesWrittenFile /\ Len(plog) >= 1)
             => (plog[1].err = "" /\ SameVolume(plog[1].ret))

\* Beside C1: for voxels and a palette given as nested lists, with at most
\* 127 channels per colour, the round trip of C1 does hold.
RoundTripOfLists ==
    ( /\ voxelsArg.kind = "list" /\ NDim(voxelsArg) = 3
      /\ paletteArg.kind = "list" /\ NDim(paletteArg) = 2
      /\ paletteArg.shape[2] <= 127
      /\ InRangeInts(voxelsArg) /\ InRangeInts(paletteArg) )
    => /\ writer.err = ""
       /\ wcalled => (wfile.err = "" /\ wfile.file = "closed")
       /\ (ParsesWrittenFile /\ Len(plog) >= 1)
             => (plog[1].err = "" /\ SameVolume(plog[1].ret))

\* C2 (as stated): parse of a file with a valid magic tag and a complete
\* header that ends before all width*height*depth voxel entries fails and
\* returns nothing, whatever the palette size.
C2_Truncation ==
    ( /\ Len(plog) >= 1
      /\ SrcHeader.err = ""
      /\ SrcHeader.bytes_per_index >= 1
      /\ Len(psrc) < 24 + SrcHeader.width * SrcHeader.height * SrcHeader.depth
                            * SrcHeader.bytes_per_index )
    => (plog[1].err # "" /\ plog[1].ret = None)

C4_DefaultConstruction ==
    (voxelsArg = NoneArg /\ paletteArg = NoneArg)
    => /\ writer.err = ""
       /\ <<writer.width, writer.height, writer.depth>> = <<1, 1, 1>>
       /\ writer.num_of_pallette_colors = 256
       /\ writer.num_of_color_channels = 4
       /\ wcalled =>
            /\ wfile.err = ""
            /\ wfile.data = format_string \o <<0, 4, 8, 8>> \o ToBytes4(1)
                              \o ToBytes4(1) \o ToBytes4(1) \o ToBytes4(256)
                              \o <<0>> \o [k \in 1..1024 |-> 255]

\* C5: once a parse call on an instance has succeeded, every later call
\* succeeds, returns the same result and leaves the file position alone.
C5_ParseIdempotent ==
    \A j \in 1..Len(plog) : \A k \in (j + 1)..Len(plog) :
        plog[j].err = ""
        => /\ plog[k].err = ""
           /\ plog[k].ret = plog[j].ret
           /\ plog[k].pos1 = plog[k].pos0

\* C5 witness: a second parse after one that returned an all-empty volume
\* (no voxel, no palette entry).
C5_Witness ==
    /\ Len(plog) >= 2
    /\ plog[1].err = ""
    /\ Size(plog[1].ret.voxels) = 0
    /\ plog[1].ret.num_of_pallette_colors = 0

\* C6: parse of a file whose first 4 bytes are not "XRAW" fails with the
\* format error, a ValueError (raised by the comparison, or by the decode
\* as its subclass UnicodeDecodeError when the bytes are not UTF-8), having
\* consumed those 4 bytes only; it returns nothing and caches nothing.
C6_MagicRejection ==
    ( /\ Len(plog) >= 1
      /\ Len(psrc) >= 4
      /\ SubSeq(psrc, 1, 4) # format_string )
    => /\ IsValueError(plog[1].err)
       /\ plog[1].ret = None
       /\ plog[1].pos0 = 0 /\ plog[1].pos1 = 4
       /\ Len(plog) = 1 => (pinst.data = None /\ pinst.pos = 4)

\* C6 witness: a parse of a file that starts "XRA0" and goes on.
C6_Witness ==
    /\ Len(plog) = 1
    /\ Len(psrc) > 24
    /\ SubSeq(psrc, 1, 4) = <<88, 82, 65, 48>>

\* C7 (as stated): when a write_file call has ended, by return or by an
\* error, the file it opened is closed.
C7_SinkRelease == wcalled => wfile.file = "closed"

\* C8 (as stated): write_file of every encoder with integer contents in
\* 0..255 emits exactly the documented layout.
C8_Layout ==
    ( /\ wcalled
      /\ InRangeInts(writer.voxels) /\ InRangeInts(writer.palette) )
    => (wfile.err = "" /\ wfile.data = EncodedLayout(writer))

\* C8 (amended): write_file of every encoder with integer contents in 0..255
\* and at most 255 channels per colour emits exactly the documented layout.
C8_LayoutUpTo255Channels ==
    ( /\ wcalled
      /\ InRangeInts(writer.voxels) /\ InRangeInts(writer.palette)
      /\ writer.num_of_color_channels <= 255 )
    => (wfile.err = "" /\ wfile.data = EncodedLayout(writer))

\* C8 witness: a written volume with every extent above 1 and several
\* colours of several channels.
C8_Witness ==
    /\ wcalled /\ wfile.err = ""
    /\ writer.width > 1 /\ writer.height > 1 /\ writer.depth > 1
    /\ writer.num_of_pallette_colors > 1 /\ writer.num_of_color_channels > 1
    /\ Len(wfile.data) = 24 + writer.width * writer.height * writer.depth
                            + writer.num_of_pallette_colors
                              * writer.num_of_color_channels

\* C9 (as stated): every parse call that returns gives the arrays in the
\* form its own mode argument selects.
C9_OutputMode ==
    \A k \in 1..Len(plog) :
        plog[k].err = ""
        => /\ plog[k].ret.voxels.kind = (IF plog[k].use_lists THEN "list" ELSE "ndarray")
           /\ plog[k].ret.palette.kind = (IF plog[k].use_lists THEN "list" ELSE "ndarray")

\* C10 (as stated): after a failed parse call the cache stays unset and
\* every later parse call on the instance fails too.
C10_FailureIsFinal ==
    \A j \in 1..Len(plog) : \A k \in (j + 1)..Len(plog) :
        plog[j].err # ""
        => (plog[k].err # "" /\ plog[k].ret = None /\ pinst.data = None)

====
